---- MODULE Spec2Model ----
(***************************************************************************)
(* Chat widget of the portfolio site (components/ChatWidget/ChatWidget.tsx) *)
(* as a state machine: the React state of one mounted widget, the browser  *)
(* timer queue that carries its pending auto-replies, and the millisecond  *)
(* clock read by Date.now() / new Date().                                  *)
(*                                                                         *)
(* Text is a sequence of one-character strings, so trim(), toLowerCase()   *)
(* and includes() are computed character by character.  A reply is the     *)
(* sequence of the pieces its template concatenates; profile fields are    *)
(* opaque pieces (data/profile.json is content, not logic).  Emoji of the  *)
(* reply texts are left out of the string literals.                        *)
(***************************************************************************)
EXTENDS Integers, Sequences, FiniteSets, TLC

\* ---- bounds of the exploration ----
\* non-blank sends per session
MaxSends == 2
\* the clock is observed at instants k * ReplyDelay + j with j <= MaxJitter
MaxJitter == 1
\* and k <= MaxEpochs
MaxEpochs == 2

\* ---- program constants ----
\* setTimeout(..., 1000)
ReplyDelay == 1000

MaxTime == MaxEpochs * ReplyDelay + MaxJitter

\* profile.json fields substituted into the reply templates
ProfileEmail == "${profile.email}"
ProfileLocation == "${profile.location}"
ProfileName == "${profile.name}"
ProfileTitle == "${profile.title}"

\* ---- strings ----
IsWhiteSpace(c) == c \in {" ", "\t", "\n", "\r"}

RECURSIVE TrimStart(_)
TrimStart(s) ==
  IF s # <<>> /\ IsWhiteSpace(Head(s)) THEN TrimStart(Tail(s)) ELSE s

RECURSIVE TrimEnd(_)
TrimEnd(s) ==
  IF s # <<>> /\ IsWhiteSpace(s[Len(s)])
    THEN TrimEnd(SubSeq(s, 1, Len(s) - 1))
    ELSE s

\* String.prototype.trim
Trim(s) == TrimEnd(TrimStart(s))

UpperToLower ==
  [c \in {"A", "B", "C", "D", "E", "F", "G", "H", "I", "J", "K", "L", "M",
          "N", "O", "P", "Q", "R", "S", "T", "U", "V", "W", "X", "Y", "Z"} |->
     CASE c = "A" -> "a" [] c = "B" -> "b" [] c = "C" -> "c" [] c = "D" -> "d"
       [] c = "E" -> "e" [] c = "F" -> "f" [] c = "G" -> "g" [] c = "H" -> "h"
       [] c = "I" -> "i" [] c = "J" -> "j" [] c = "K" -> "k" [] c = "L" -> "l"
       [] c = "M" -> "m" [] c = "N" -> "n" [] c = "O" -> "o" [] c = "P" -> "p"
       [] c = "Q" -> "q" [] c = "R" -> "r" [] c = "S" -> "s" [] c = "T" -> "t"
       [] c = "U" -> "u" [] c = "V" -> "v" [] c = "W" -> "w" [] c = "X" -> "x"
       [] c = "Y" -> "y" [] c = "Z" -> "z"]

\* String.prototype.toLowerCase
ToLowerCase(s) ==
  [i \in 1..Len(s) |->
     IF s[i] \in DOMAIN UpperToLower THEN UpperToLower[s[i]] ELSE s[i]]

\* String.prototype.includes
Includes(s, k) ==
  \E i \in 0..(Len(s) - Len(k)) : \A j \in 1..Len(k) : s[i + j] = k[j]

\* ---- the auto-reply rules, in source order ----
Rules ==
  <<
    \* Greetings (line 81)
    [keywords |-> <<<<"h", "i">>,
                   <<"h", "e", "l", "l", "o">>,
                   <<"h", "e", "y">>,
                   <<"g", "o", "o", "d", " ", "m", "o", "r", "n", "i", "n", "g">>,
                   <<"g", "o", "o", "d", " ", "a", "f", "t", "e", "r", "n", "o", "o", "n">>,
                   <<"g", "o", "o", "d", " ", "e", "v", "e", "n", "i", "n", "g">>>>,
     reply |->
       <<"Hi there! Thanks for reaching out. I'm currently away, but feel free to leave a message or email me at ",
         ProfileEmail,
         ". I'll get back to you soon!">>],
    \* Farewells (line 86)
    [keywords |-> <<<<"b", "y", "e">>,
                   <<"g", "o", "o", "d", "b", "y", "e">>,
                   <<"s", "e", "e", " ", "y", "o", "u">>,
                   <<"t", "a", "k", "e", " ", "c", "a", "r", "e">>>>,
     reply |->
       <<"Thanks for chatting! Feel free to come back anytime. Have a great day! ">>],
    \* Thanks (line 91)
    [keywords |-> <<<<"t", "h", "a", "n", "k">>,
                   <<"t", "h", "a", "n", "k", "s">>,
                   <<"a", "p", "p", "r", "e", "c", "i", "a", "t", "e">>>>,
     reply |->
       <<"You're welcome! Let me know if there's anything else I can help with. ">>],
    \* Need a website (line 98)
    [keywords |-> <<<<"n", "e", "e", "d", " ", "a", " ", "w", "e", "b", "s", "i", "t", "e">>,
                   <<"w", "a", "n", "t", " ", "a", " ", "w", "e", "b", "s", "i", "t", "e">>,
                   <<"b", "u", "i", "l", "d", " ", "m", "e", " ", "a", " ", "w", "e", "b", "s", "i", "t", "e">>,
                   <<"c", "r", "e", "a", "t", "e", " ", "a", " ", "w", "e", "b", "s", "i", "t", "e">>,
                   <<"m", "a", "k", "e", " ", "a", " ", "w", "e", "b", "s", "i", "t", "e">>,
                   <<"l", "o", "o", "k", "i", "n", "g", " ", "f", "o", "r", " ", "a", " ", "w", "e", "b", "s", "i", "t", "e">>>>,
     reply |->
       <<"I'd love to help you build a website! Please tell me more about your business and what kind of website you're looking for. I'll get back to you with ideas and a quote. ">>],
    \* Business website (line 103)
    [keywords |-> <<<<"b", "u", "s", "i", "n", "e", "s", "s">>,
                   <<"c", "o", "m", "p", "a", "n", "y">>,
                   <<"s", "t", "a", "r", "t", "u", "p">>,
                   <<"e", "n", "t", "e", "r", "p", "r", "i", "s", "e">>>>,
     reply |->
       <<"I specialize in creating professional websites for businesses! Whether you need a landing page, company website, or e-commerce store, I can help. Tell me more about your business!">>],
    \* Online store / E-commerce (line 108)
    [keywords |-> <<<<"o", "n", "l", "i", "n", "e", " ", "s", "t", "o", "r", "e">>,
                   <<"e", "-", "c", "o", "m", "m", "e", "r", "c", "e">>,
                   <<"e", "c", "o", "m", "m", "e", "r", "c", "e">>,
                   <<"s", "e", "l", "l", " ", "o", "n", "l", "i", "n", "e">>,
                   <<"s", "h", "o", "p">>,
                   <<"s", "e", "l", "l", "i", "n", "g", " ", "p", "r", "o", "d", "u", "c", "t", "s">>>>,
     reply |->
       <<"I can build you an online store to sell your products! I work with modern e-commerce solutions. Let me know what products you're selling and I'll help you get started.">>],
    \* Landing page (line 113)
    [keywords |-> <<<<"l", "a", "n", "d", "i", "n", "g", " ", "p", "a", "g", "e">>,
                   <<"o", "n", "e", " ", "p", "a", "g", "e">>,
                   <<"s", "i", "n", "g", "l", "e", " ", "p", "a", "g", "e">>,
                   <<"s", "i", "m", "p", "l", "e", " ", "w", "e", "b", "s", "i", "t", "e">>>>,
     reply |->
       <<"A landing page is a great way to showcase your business! I can create a beautiful, responsive landing page that converts visitors into customers. What's your business about?">>],
    \* Mobile app (line 118)
    [keywords |-> <<<<"m", "o", "b", "i", "l", "e", " ", "a", "p", "p">>,
                   <<"a", "n", "d", "r", "o", "i", "d">>,
                   <<"i", "o", "s">>,
                   <<"a", "p", "p", " ", "f", "o", "r", " ", "m", "y">>,
                   <<"p", "h", "o", "n", "e", " ", "a", "p", "p">>>>,
     reply |->
       <<"I also develop mobile apps! Tell me about your app idea - what problem does it solve? I'd love to help bring your vision to life. ">>],
    \* Redesign / Revamp (line 123)
    [keywords |-> <<<<"r", "e", "d", "e", "s", "i", "g", "n">>,
                   <<"r", "e", "v", "a", "m", "p">>,
                   <<"u", "p", "d", "a", "t", "e", " ", "m", "y", " ", "w", "e", "b", "s", "i", "t", "e">>,
                   <<"i", "m", "p", "r", "o", "v", "e", " ", "m", "y", " ", "w", "e", "b", "s", "i", "t", "e">>,
                   <<"f", "i", "x", " ", "m", "y", " ", "w", "e", "b", "s", "i", "t", "e">>,
                   <<"o", "l", "d", " ", "w", "e", "b", "s", "i", "t", "e">>>>,
     reply |->
       <<"I can help modernize your existing website! Share your current website URL and tell me what you'd like to improve. I'll give you recommendations and a quote.">>],
    \* Logo / Branding (line 128)
    [keywords |-> <<<<"l", "o", "g", "o">>,
                   <<"b", "r", "a", "n", "d", "i", "n", "g">>,
                   <<"b", "r", "a", "n", "d">>,
                   <<"d", "e", "s", "i", "g", "n">>>>,
     reply |->
       <<"While my main focus is web development, I can help with basic branding and design for your website. Tell me more about your brand vision!">>],
    \* Restaurant / Food (line 133)
    [keywords |-> <<<<"r", "e", "s", "t", "a", "u", "r", "a", "n", "t">>,
                   <<"f", "o", "o", "d">>,
                   <<"c", "a", "f", "e">>,
                   <<"m", "e", "n", "u">>,
                   <<"c", "a", "t", "e", "r", "i", "n", "g">>>>,
     reply |->
       <<"I can create a beautiful website for your restaurant or food business! Features like online menus, reservations, and ordering systems are all possible. Tell me more about your place!">>],
    \* Salon / Beauty (line 138)
    [keywords |-> <<<<"s", "a", "l", "o", "n">>,
                   <<"b", "e", "a", "u", "t", "y">>,
                   <<"s", "p", "a">>,
                   <<"h", "a", "i", "r">>,
                   <<"n", "a", "i", "l">>,
                   <<"m", "a", "k", "e", "u", "p">>>>,
     reply |->
       <<"I'd love to create a stunning website for your beauty business! I can include booking systems, service menus, and galleries to showcase your work. What services do you offer?">>],
    \* Real Estate (line 143)
    [keywords |-> <<<<"r", "e", "a", "l", " ", "e", "s", "t", "a", "t", "e">>,
                   <<"p", "r", "o", "p", "e", "r", "t", "y">>,
                   <<"h", "o", "u", "s", "e">>,
                   <<"a", "p", "a", "r", "t", "m", "e", "n", "t">>,
                   <<"r", "e", "n", "t", "a", "l">>>>,
     reply |->
       <<"I can build a professional real estate website with property listings, search features, and contact forms. Tell me more about your real estate business!">>],
    \* Portfolio / Personal (line 148)
    [keywords |-> <<<<"p", "o", "r", "t", "f", "o", "l", "i", "o">>,
                   <<"p", "e", "r", "s", "o", "n", "a", "l", " ", "w", "e", "b", "s", "i", "t", "e">>,
                   <<"m", "y", " ", "o", "w", "n", " ", "w", "e", "b", "s", "i", "t", "e">>,
                   <<"s", "h", "o", "w", "c", "a", "s", "e", " ", "m", "y", " ", "w", "o", "r", "k">>>>,
     reply |->
       <<"A portfolio website is perfect for showcasing your work! I can create something similar to this site, customized for you. What kind of work do you want to display?">>],
    \* Blog (line 153)
    [keywords |-> <<<<"b", "l", "o", "g">>,
                   <<"w", "r", "i", "t", "e">>,
                   <<"a", "r", "t", "i", "c", "l", "e", "s">>,
                   <<"c", "o", "n", "t", "e", "n", "t">>>>,
     reply |->
       <<"I can set up a beautiful blog for you! Whether it's personal blogging or content marketing for your business, I've got you covered. What topics will you write about?">>],
    \* Booking / Appointment (line 158)
    [keywords |-> <<<<"b", "o", "o", "k", "i", "n", "g">>,
                   <<"a", "p", "p", "o", "i", "n", "t", "m", "e", "n", "t">>,
                   <<"s", "c", "h", "e", "d", "u", "l", "e">>,
                   <<"r", "e", "s", "e", "r", "v", "a", "t", "i", "o", "n">>>>,
     reply |->
       <<"I can integrate booking and appointment systems into your website! This is great for service-based businesses. What kind of appointments do you need to manage?">>],
    \* How long / Timeline (line 163)
    [keywords |-> <<<<"h", "o", "w", " ", "l", "o", "n", "g">>,
                   <<"t", "i", "m", "e", "l", "i", "n", "e">>,
                   <<"d", "e", "a", "d", "l", "i", "n", "e">>,
                   <<"w", "h", "e", "n", " ", "c", "a", "n">>,
                   <<"t", "u", "r", "n", "a", "r", "o", "u", "n", "d">>>>,
     reply |->
       <<"Project timelines depend on complexity. A simple landing page takes about 1-2 weeks, while larger projects may take 4-8 weeks. Share your requirements and deadline, and I'll let you know if I can meet it!">>],
    \* How much / Payment (line 168)
    [keywords |-> <<<<"h", "o", "w", " ", "m", "u", "c", "h">>,
                   <<"p", "a", "y", "m", "e", "n", "t">>,
                   <<"p", "a", "y">>,
                   <<"d", "e", "p", "o", "s", "i", "t">>,
                   <<"i", "n", "s", "t", "a", "l", "l", "m", "e", "n", "t">>>>,
     reply |->
       <<"Pricing varies based on project scope. I offer flexible payment options including deposits and installments. Let's discuss your project first, and I'll provide a detailed quote!">>],
    \* Maintenance / Updates (line 173)
    [keywords |-> <<<<"m", "a", "i", "n", "t", "e", "n", "a", "n", "c", "e">>,
                   <<"u", "p", "d", "a", "t", "e">>,
                   <<"m", "a", "n", "a", "g", "e">>,
                   <<"a", "f", "t", "e", "r">>,
                   <<"s", "u", "p", "p", "o", "r", "t", " ", "a", "f", "t", "e", "r">>>>,
     reply |->
       <<"Yes, I offer website maintenance and support! I can help you keep your site updated, secure, and running smoothly. We can discuss a maintenance plan that works for you.">>],
    \* Domain / Hosting (line 178)
    [keywords |-> <<<<"d", "o", "m", "a", "i", "n">>,
                   <<"h", "o", "s", "t", "i", "n", "g">>,
                   <<"s", "e", "r", "v", "e", "r">>,
                   <<"p", "u", "b", "l", "i", "s", "h">>,
                   <<"g", "o", " ", "l", "i", "v", "e">>>>,
     reply |->
       <<"I can help you with domain registration and hosting setup! I'll guide you through the process and make sure your website goes live smoothly. ">>],
    \* SEO (line 183)
    [keywords |-> <<<<"s", "e", "o">>,
                   <<"g", "o", "o", "g", "l", "e">>,
                   <<"s", "e", "a", "r", "c", "h", " ", "e", "n", "g", "i", "n", "e">>,
                   <<"r", "a", "n", "k", "i", "n", "g">>,
                   <<"f", "o", "u", "n", "d", " ", "o", "n", "l", "i", "n", "e">>>>,
     reply |->
       <<"I build websites with SEO best practices in mind! This helps your site rank better on Google. I can also provide basic SEO optimization as part of the project.">>],
    \* Social Media Integration (line 188)
    [keywords |-> <<<<"f", "a", "c", "e", "b", "o", "o", "k">>,
                   <<"i", "n", "s", "t", "a", "g", "r", "a", "m">>,
                   <<"t", "w", "i", "t", "t", "e", "r">>,
                   <<"s", "o", "c", "i", "a", "l", " ", "m", "e", "d", "i", "a", " ", "i", "n", "t", "e", "g", "r", "a", "t", "i", "o", "n">>>>,
     reply |->
       <<"I can integrate your social media accounts into your website! This includes feeds, share buttons, and links to your profiles. Which platforms do you use?">>],
    \* Projects & Work (line 195)
    [keywords |-> <<<<"p", "r", "o", "j", "e", "c", "t">>,
                   <<"w", "o", "r", "k">>,
                   <<"c", "o", "l", "l", "a", "b", "o", "r", "a", "t", "e">>>>,
     reply |->
       <<"I'd love to discuss potential projects! Please share some details about what you have in mind, and I'll respond as soon as I'm available. You can also check out my Projects section to see my previous work!">>],
    \* Hiring & Jobs (line 200)
    [keywords |-> <<<<"h", "i", "r", "e">>,
                   <<"j", "o", "b">>,
                   <<"o", "p", "p", "o", "r", "t", "u", "n", "i", "t", "y">>,
                   <<"p", "o", "s", "i", "t", "i", "o", "n">>,
                   <<"v", "a", "c", "a", "n", "c", "y">>,
                   <<"r", "e", "c", "r", "u", "i", "t">>>>,
     reply |->
       <<"Thanks for considering me! I'm always open to new opportunities. Please send the details to my email and I'll review them promptly. Looking forward to hearing from you!">>],
    \* Contact Info (line 205)
    [keywords |-> <<<<"c", "o", "n", "t", "a", "c", "t">>,
                   <<"e", "m", "a", "i", "l">>,
                   <<"r", "e", "a", "c", "h">>,
                   <<"p", "h", "o", "n", "e">>,
                   <<"c", "a", "l", "l">>>>,
     reply |->
       <<"You can reach me at ",
         ProfileEmail,
         ". I typically respond within 24 hours! You can also find me on LinkedIn and GitHub through the social links on this page.">>],
    \* Skills & Tech (line 210)
    [keywords |-> <<<<"s", "k", "i", "l", "l">>,
                   <<"t", "e", "c", "h">>,
                   <<"s", "t", "a", "c", "k">>,
                   <<"p", "r", "o", "g", "r", "a", "m", "m", "i", "n", "g">>,
                   <<"l", "a", "n", "g", "u", "a", "g", "e">>>>,
     reply |->
       <<"Check out my Skills section on this page to see my tech stack! I work with React, TypeScript, and various modern web technologies. Feel free to ask about any specific technology.">>],
    \* Experience & Background (line 215)
    [keywords |-> <<<<"e", "x", "p", "e", "r", "i", "e", "n", "c", "e">>,
                   <<"b", "a", "c", "k", "g", "r", "o", "u", "n", "d">>,
                   <<"c", "a", "r", "e", "e", "r">>,
                   <<"h", "i", "s", "t", "o", "r", "y">>>>,
     reply |->
       <<"You can find my professional experience in the Experience section of this page. I'm a BSIT student with hands-on experience in web and mobile development!">>],
    \* Education (line 220)
    [keywords |-> <<<<"e", "d", "u", "c", "a", "t", "i", "o", "n">>,
                   <<"s", "c", "h", "o", "o", "l">>,
                   <<"u", "n", "i", "v", "e", "r", "s", "i", "t", "y">>,
                   <<"d", "e", "g", "r", "e", "e">>,
                   <<"s", "t", "u", "d", "y">>>>,
     reply |->
       <<"I'm currently a 4th year BS Information Technology student. Check out my Experience section for more details about my educational background!">>],
    \* Availability (line 225)
    [keywords |-> <<<<"a", "v", "a", "i", "l", "a", "b", "l", "e">>,
                   <<"f", "r", "e", "e">>,
                   <<"b", "u", "s", "y">>>>,
     reply |->
       <<"I'm currently open to freelance projects and job opportunities! Feel free to share your timeline and requirements, and I'll let you know my availability.">>],
    \* Pricing & Rates (line 230)
    [keywords |-> <<<<"p", "r", "i", "c", "e">>,
                   <<"r", "a", "t", "e">>,
                   <<"c", "o", "s", "t">>,
                   <<"b", "u", "d", "g", "e", "t">>,
                   <<"c", "h", "a", "r", "g", "e">>,
                   <<"f", "e", "e">>>>,
     reply |->
       <<"Pricing depends on the project scope and requirements. Let's discuss your project details first, and I'll provide a fair quote. Send me the specifics via email!">>],
    \* Services (line 235)
    [keywords |-> <<<<"s", "e", "r", "v", "i", "c", "e">>,
                   <<"o", "f", "f", "e", "r">>,
                   <<"p", "r", "o", "v", "i", "d", "e">>,
                   <<"d", "o", " ", "y", "o", "u", " ", "d", "o">>>>,
     reply |->
       <<"I offer web development, mobile app development, and UI/UX design services. Check out my Projects section to see examples of my work!">>],
    \* Resume/CV (line 240)
    [keywords |-> <<<<"r", "e", "s", "u", "m", "e">>,
                   <<"c", "v">>,
                   <<"c", "u", "r", "r", "i", "c", "u", "l", "u", "m">>>>,
     reply |->
       <<"You can download my resume from the link on this page. It has all my skills, experience, and education details!">>],
    \* Location (line 245)
    [keywords |-> <<<<"l", "o", "c", "a", "t", "i", "o", "n">>,
                   <<"w", "h", "e", "r", "e">>,
                   <<"b", "a", "s", "e", "d">>,
                   <<"c", "o", "u", "n", "t", "r", "y">>,
                   <<"c", "i", "t", "y">>>>,
     reply |->
       <<"I'm based in ",
         ProfileLocation,
         ". I'm open to remote work and collaborations worldwide!">>],
    \* Help (line 250)
    [keywords |-> <<<<"h", "e", "l", "p">>,
                   <<"s", "u", "p", "p", "o", "r", "t">>,
                   <<"a", "s", "s", "i", "s", "t">>>>,
     reply |->
       <<"I'm happy to help! You can ask me about my services, pricing, timeline, or anything else. What would you like to know?">>],
    \* Who are you (line 255)
    [keywords |-> <<<<"w", "h", "o", " ", "a", "r", "e", " ", "y", "o", "u">>,
                   <<"a", "b", "o", "u", "t", " ", "y", "o", "u">>,
                   <<"t", "e", "l", "l", " ", "m", "e", " ", "a", "b", "o", "u", "t">>,
                   <<"i", "n", "t", "r", "o", "d", "u", "c", "e">>>>,
     reply |->
       <<"I'm ",
         ProfileName,
         ", a ",
         ProfileTitle,
         ". I help businesses and individuals create beautiful, functional websites and apps. Check out the About section to learn more!">>],
    \* Compliments (line 260)
    [keywords |-> <<<<"n", "i", "c", "e">>,
                   <<"g", "r", "e", "a", "t">>,
                   <<"a", "w", "e", "s", "o", "m", "e">>,
                   <<"c", "o", "o", "l">>,
                   <<"a", "m", "a", "z", "i", "n", "g">>,
                   <<"l", "o", "v", "e">>,
                   <<"b", "e", "a", "u", "t", "i", "f", "u", "l">>,
                   <<"i", "m", "p", "r", "e", "s", "s", "i", "v", "e">>>>,
     reply |->
       <<"Thank you so much! I really appreciate the kind words.  Let me know if there's anything I can help you with!">>],
    \* Interested / Want to work together (line 265)
    [keywords |-> <<<<"i", "n", "t", "e", "r", "e", "s", "t", "e", "d">>,
                   <<"w", "a", "n", "t", " ", "t", "o", " ", "w", "o", "r", "k">>,
                   <<"w", "o", "r", "k", " ", "t", "o", "g", "e", "t", "h", "e", "r">>,
                   <<"w", "o", "r", "k", " ", "w", "i", "t", "h", " ", "y", "o", "u">>>>,
     reply |->
       <<"That's great to hear! I'd love to work with you. Tell me more about what you need, and let's make it happen! ">>],
    \* Questions (line 270)
    [keywords |-> <<<<"?">>,
                   <<"h", "o", "w">>,
                   <<"w", "h", "a", "t">>,
                   <<"w", "h", "e", "n">>,
                   <<"w", "h", "y">>,
                   <<"c", "a", "n", " ", "y", "o", "u">>>>,
     reply |->
       <<"Great question! I'm currently away, but I'll get back to you with a detailed answer soon. Feel free to email me for a faster response!">>]
  >>

DefaultReply ==
  <<"Thanks for your message! I'm currently away but I'll get back to you as soon as possible. You can also reach me directly at ",
         ProfileEmail,
         ". Looking forward to connecting with you!">>

RuleMatches(lowerMessage, r) ==
  \E k \in 1..Len(Rules[r].keywords) : Includes(lowerMessage, Rules[r].keywords[k])

\* the if-cascade: the first rule whose test succeeds returns
CascadeLast(lowerMessage, r) ==
  LET matching == {q \in r..Len(Rules) : RuleMatches(lowerMessage, q)} IN
    IF matching = {} THEN DefaultReply
    ELSE Rules[CHOOSE q \in matching : \A p \in matching : p <= q].reply
RECURSIVE CascadeNoDefault(_, _)
CascadeNoDefault(lowerMessage, r) ==
  IF r > Len(Rules) THEN <<>>
  ELSE IF RuleMatches(lowerMessage, r) THEN Rules[r].reply
  ELSE CascadeNoDefault(lowerMessage, r + 1)
RECURSIVE Cascade(_, _)
Cascade(lowerMessage, r) ==
  IF r > Len(Rules) THEN DefaultReply
  ELSE IF RuleMatches(lowerMessage, r) THEN Rules[r].reply
  ELSE Cascade(lowerMessage, r + 1)

getAutoReplyAsTyped(userMessage) == Cascade(userMessage, 1)
getAutoReply(userMessage) == Cascade(ToLowerCase(userMessage), 1)

\* ---- inputs ----
\* texts a visitor types: blank, a greeting, and a padded
\* farewell in mixed case (the input field starts empty)
InputTexts ==
  { <<" ">>,
    <<"h", "i">>,
    <<" ", "B", "y", "e", " ">> }

\* seed histories handed to the widget as initialMessages
Seeds ==
  { <<>>,
    << [id |-> <<"seed-", 1>>, content |-> <<"h", "i">>,
        sender |-> "owner", timestamp |-> 0] >> }

\* a string or null: <<>> is null, <<m>> is the string m; a message string is
\* the sequence of the pieces its template concatenates
Null == <<>>
Some(m) == <<m>>

\* ---- state ----
VARIABLES
  isOpen,           \* chatState.isOpen
  messages,         \* chatState.messages
  inputValue,       \* the controlled input's value
  timers,           \* pending setTimeout callbacks, in firing order
  now,              \* the clock, in ms since mount
  mounted,          \* the component is mounted
  initialMessages,  \* the initialMessages prop
  answers,          \* history: answers[i] is the index of the user message
                    \* that messages[i] replies to, 0 for any other message
  lastEvent,        \* history: the handler that ran in the last step and the
                    \* text it read; none when the step was not a handler
  timeZone,         \* the environment's offset from UTC, in minutes east
  call,             \* the utility function called last, "none" before a call
  arg,              \* the argument the caller holds
  result,           \* what the call returned
  formState,        \* ContactForm: {status, errorMessage}
  form,             \* ContactForm: what useForm keeps (field values, errors,
                    \* whether a submit was attempted)
  inFlight,         \* ContactForm: the data of the submissions not yet settled
  onSubmit          \* ContactForm: the onSubmit prop is given

chatVars ==
  <<isOpen, messages, inputValue, timers, now, mounted, initialMessages,
    answers, lastEvent>>

\* the caller of the utility functions (utils/validation, utils/sorting)
utilVars == <<timeZone, call, arg, result>>

vars ==
  <<isOpen, messages, inputValue, timers, now, mounted, initialMessages,
    answers, lastEvent, timeZone, call, arg, result,
    formState, form, inFlight, onSubmit>>

formVars == <<formState, form, inFlight, onSubmit>>

\* a form nobody has touched: useState's initial value and useForm without
\* default values
UntouchedForm ==
  [values |-> [name |-> <<>>, email |-> <<>>, message |-> <<>>],
   errors |-> [name |-> Null, email |-> Null, message |-> Null],
   isSubmitted |-> FALSE]

formIdle ==
  /\ formState = [status |-> "idle", errorMessage |-> Null]
  /\ form = UntouchedForm
  /\ inFlight = <<>>
  /\ onSubmit = FALSE

Event(op, text) == [op |-> op, text |-> text]

MessageId(t) == <<"msg-", t>>

\* messages appended since mount, by sender
Appended == (Len(initialMessages) + 1)..Len(messages)
UserMessages == {i \in Appended : messages[i].sender = "user"}
OwnerReplies == {i \in Appended : messages[i].sender = "owner"}

Last(s) == s[Len(s)]

\* [...prev.messages, m]
prependMessage(list, m) == <<m>> \o list
appendMessage(list, m) == Append(list, m)

\* if (!trimmedInput) return
isBlankNever(trimmedInput) == FALSE
isBlank(trimmedInput) == trimmedInput = <<>>

\* setChatState from the timer callback takes effect on a mounted component;
\* React (19, per the design document) discards the update of an unmounted one
replyDeliveredWhenOpen == mounted /\ isOpen
replyDeliveredAlways == TRUE
replyDelivered == mounted

\* what the render shows: the button alone while closed, the history while open
shownMessages == IF isOpen THEN messages ELSE <<>>

Init ==
  /\ initialMessages \in Seeds
  /\ isOpen = FALSE
  /\ messages = initialMessages
  /\ inputValue = <<>>
  /\ timers = <<>>
  /\ now = 0
  /\ mounted = TRUE
  /\ answers = [i \in 1..Len(initialMessages) |-> 0]
  /\ lastEvent = Event("mount", <<>>)
  /\ formIdle
  /\ timeZone = 0
  /\ call = "none"
  /\ arg = <<>>
  /\ result = <<>>

openChat ==
  /\ mounted
  /\ isOpen' = TRUE
  /\ lastEvent' = Event("toggle", <<>>)
  /\ UNCHANGED <<utilVars, formVars>>
  /\ UNCHANGED <<messages, inputValue, timers, now, mounted, initialMessages, answers>>
toggleChat ==
  /\ mounted
  /\ isOpen' = ~isOpen
  /\ lastEvent' = Event("toggle", <<>>)
  /\ UNCHANGED <<utilVars, formVars>>
  /\ UNCHANGED <<messages, inputValue, timers, now, mounted, initialMessages, answers>>

\* onChange of the input, which is rendered only while the chat is open
setInputValue(text) ==
  /\ mounted
  /\ isOpen
  /\ text # inputValue
  /\ inputValue' = text
  /\ lastEvent' = Event("input", <<>>)
  /\ UNCHANGED <<utilVars, formVars>>
  /\ UNCHANGED <<isOpen, messages, timers, now, mounted, initialMessages, answers>>

\* the timer sendAutoReply registers
sendAutoReplyTwice(userMessage, replyTo) ==
  timers \o << [userMessage |-> userMessage, due |-> now + ReplyDelay, replyTo |-> replyTo],
               [userMessage |-> userMessage, due |-> now + ReplyDelay, replyTo |-> replyTo] >>
sendAutoReplyAhead(userMessage, replyTo) ==
  <<[userMessage |-> userMessage, due |-> now + ReplyDelay, replyTo |-> replyTo]>>
    \o timers
sendAutoReply(userMessage, replyTo) ==
  Append(timers, [userMessage |-> userMessage, due |-> now + ReplyDelay, replyTo |-> replyTo])

\* the message handleSendMessage builds
newMessageRaw(trimmedInput) ==
  [id |-> MessageId(now), content |-> inputValue, sender |-> "user", timestamp |-> now]
newMessage(trimmedInput) ==
  [id |-> MessageId(now), content |-> trimmedInput, sender |-> "user", timestamp |-> now]

\* form submit / Enter, possible only while the form is rendered
handleSendMessage ==
  /\ mounted
  /\ isOpen
  /\ lastEvent' = Event("send", inputValue)
  /\ UNCHANGED <<utilVars, formVars>>
  /\ LET trimmedInput == Trim(inputValue) IN
       IF isBlank(trimmedInput)
         THEN UNCHANGED <<isOpen, messages, inputValue, timers, now, mounted,
                          initialMessages, answers>>
         ELSE /\ Cardinality(UserMessages) < MaxSends
              /\ now + ReplyDelay <= MaxTime
              /\ messages' = appendMessage(messages, newMessage(trimmedInput))
              /\ answers' = Append(answers, 0)
              /\ inputValue' = <<>>
              /\ timers' = sendAutoReply(trimmedInput, Len(messages) + 1)
              /\ UNCHANGED <<isOpen, now, mounted, initialMessages>>

\* the message the timer callback builds
replyMessageSendTime(userMessage) ==
  [id |-> MessageId(now), content |-> getAutoReply(userMessage),
   sender |-> "owner", timestamp |-> messages[Head(timers).replyTo].timestamp]
replyMessageDefault(userMessage) ==
  [id |-> MessageId(now), content |-> DefaultReply,
   sender |-> "owner", timestamp |-> now]
replyMessage(userMessage) ==
  [id |-> MessageId(now), content |-> getAutoReply(userMessage),
   sender |-> "owner", timestamp |-> now]

\* a due timer callback runs
fireTimer ==
  /\ timers # <<>>
  /\ Head(timers).due <= now
  /\ timers' = Tail(timers)
  /\ lastEvent' = Event("fire", <<>>)
  /\ UNCHANGED <<utilVars, formVars>>
  /\ IF replyDelivered
       THEN /\ messages' = appendMessage(messages, replyMessage(Head(timers).userMessage))
            /\ answers' = Append(answers, Head(timers).replyTo)
       ELSE UNCHANGED <<messages, answers>>
  /\ UNCHANGED <<isOpen, inputValue, now, mounted, initialMessages>>

\* time passes
tick(d) ==
  /\ now + d <= MaxTime
  /\ (now + d) % ReplyDelay <= MaxJitter
  /\ now' = now + d
  /\ lastEvent' = Event("none", <<>>)
  /\ UNCHANGED <<utilVars, formVars>>
  /\ UNCHANGED <<isOpen, messages, inputValue, timers, mounted, initialMessages, answers>>

\* the hosting page removes the widget
unmount ==
  /\ mounted
  /\ mounted' = FALSE
  /\ lastEvent' = Event("none", <<>>)
  /\ UNCHANGED <<utilVars, formVars>>
  /\ UNCHANGED <<isOpen, messages, inputValue, timers, now, initialMessages, answers>>

Next ==
  \/ toggleChat
  \/ \E text \in InputTexts : setInputValue(text)
  \/ handleSendMessage
  \/ fireTimer
  \/ \E d \in {1, ReplyDelay} : tick(d)
  \/ unmount

Spec == Init /\ [][Next]_vars

\* One seedless session that stays mounted, with a blank and a greeting as
\* the typed texts; the clock advances and the event loop runs a due timer
\* callback.
LiveTexts == { <<" ">>, <<"h", "i">> }

LiveInit == Init /\ initialMessages = <<>>

LiveNext ==
  \/ toggleChat
  \/ \E text \in LiveTexts : setInputValue(text)
  \/ handleSendMessage
  \/ fireTimer
  \/ \E d \in {1, ReplyDelay} : tick(d)

FairSpec ==
  /\ LiveInit
  /\ [][LiveNext]_vars
  /\ WF_vars(\E d \in {1, ReplyDelay} : tick(d))
  /\ WF_vars(fireTimer)

\* ---- properties of the chat session ----

\* C1: every owner reply appended since mount answers exactly one earlier
\* user message of the session and no user message gets two replies: there
\* are never more replies than sends, and each reply sits after the user
\* message it answers.
C1_OneReplyPerSend ==
  /\ Cardinality(OwnerReplies) <= Cardinality(UserMessages)
  /\ \A i \in OwnerReplies : answers[i] \in UserMessages /\ answers[i] < i
  /\ \A i, j \in OwnerReplies : answers[i] = answers[j] => i = j

\* two replies are in the list and one of them was appended after a later
\* user message than its own (replies interleave with sends)
C1_Witness ==
  /\ Cardinality(OwnerReplies) = 2
  /\ \E i \in OwnerReplies : \E u \in UserMessages : answers[i] < u /\ u < i

\* C2: the message list is append-only: a step leaves every message already
\* in the list (seed history included) at its index, unchanged, and adds at
\* most one message, at the end.
C2_AppendOnly ==
  [][ /\ Len(messages') \in {Len(messages), Len(messages) + 1}
      /\ SubSeq(messages', 1, Len(messages)) = messages
      /\ SubSeq(messages', 1, Len(initialMessages)) = initialMessages
      /\ initialMessages' = initialMessages ]_vars

\* a seeded session that has grown by a user message and a reply
C2_Witness ==
  /\ initialMessages # <<>>
  /\ SubSeq(messages, 1, Len(initialMessages)) = initialMessages
  /\ UserMessages # {}
  /\ OwnerReplies # {}

\* C3: a send whose trimmed text t is non-empty appends exactly one message,
\* at the end, with sender user and content t, and schedules one reply for t.
C3_SendAppendsTrimmed ==
  [][ (lastEvent'.op = "send" /\ Trim(lastEvent'.text) # <<>>) =>
        /\ Len(messages') = Len(messages) + 1
        /\ SubSeq(messages', 1, Len(messages)) = messages
        /\ Last(messages').sender = "user"
        /\ Last(messages').content = Trim(lastEvent'.text)
        /\ Len(timers') = Len(timers) + 1
        /\ SubSeq(timers', 1, Len(timers)) = timers
        /\ Last(timers').userMessage = Trim(lastEvent'.text) ]_vars

\* a padded text was sent and its trimmed form is the last message
C3_Witness ==
  /\ lastEvent.op = "send"
  /\ Trim(lastEvent.text) # <<>>
  /\ Trim(lastEvent.text) # lastEvent.text
  /\ Last(messages).sender = "user"
  /\ Last(messages).content = Trim(lastEvent.text)

\* C4: a send of an empty or whitespace-only text changes neither the
\* message list nor isOpen and schedules no reply.
C4_BlankSendNoOp ==
  [][ (lastEvent'.op = "send" /\ Trim(lastEvent'.text) = <<>>) =>
        UNCHANGED <<messages, isOpen, timers>> ]_vars

\* a whitespace-only text was submitted while a reply was pending
C4_Witness ==
  /\ lastEvent = Event("send", <<" ">>)
  /\ timers # <<>>
  /\ UserMessages # {}

\* C5: while the widget stays mounted, every user message sent is eventually
\* answered by an owner message whose content is getAutoReply of the user
\* message's text, appended no earlier than ReplyDelay after the send.
Answered(u) ==
  \E i \in OwnerReplies :
    /\ answers[i] = u
    /\ messages[i].content = getAutoReply(messages[u].content)
    /\ messages[i].timestamp >= messages[u].timestamp + ReplyDelay

C5_EveryMessageAnswered ==
  \A u \in 1..(2 * MaxSends + 2) :
    (u \in UserMessages) ~> (~mounted \/ Answered(u))

\* a greeting has been answered with the greeting reply, not the default one
C5_Witness ==
  \E u \in UserMessages :
    /\ Answered(u)
    /\ getAutoReply(messages[u].content) # DefaultReply
    /\ mounted

\* C6: closing the chat does not cancel a pending reply: a timer that fires
\* while the mounted widget is closed appends its owner reply, the widget
\* stays closed, and the next open shows the whole history.
C6_ReplyWhileClosed ==
  [][ /\ (lastEvent'.op = "fire" /\ mounted /\ ~isOpen) =>
           /\ Len(messages') = Len(messages) + 1
           /\ Last(messages').sender = "owner"
           /\ ~isOpen'
      /\ (lastEvent'.op = "toggle" /\ ~isOpen) =>
           /\ timers' = timers
           /\ shownMessages' = messages ]_vars

\* the chat was closed after a send, the reply arrived while it was closed,
\* and the chat has been opened again
C6_Witness ==
  /\ isOpen
  /\ lastEvent.op = "toggle"
  /\ OwnerReplies # {}
  /\ Last(shownMessages).sender = "owner"
  /\ Last(shownMessages).timestamp = now

C8_UniqueIds ==
  \A i, j \in Appended : messages[i].id = messages[j].id => i = j

\* C9: an owner reply carries the clock value of the moment it is appended,
\* which is never earlier than the timestamp of the user message it answers.
C9_ReplyTimestamp ==
  /\ (lastEvent.op = "fire" /\ mounted) =>
        /\ messages # <<>>
        /\ Last(messages).sender = "owner"
        /\ Last(messages).timestamp = now
  /\ \A i \in OwnerReplies :
        messages[i].timestamp >= messages[answers[i]].timestamp

\* a reply appended late: its timestamp is beyond send time plus the delay
C9_Witness ==
  \E i \in OwnerReplies :
    messages[i].timestamp > messages[answers[i]].timestamp + ReplyDelay

\* C10: the session starts closed whatever the seed history; a toggle flips
\* isOpen and touches nothing else; a mounted widget can always be toggled.
C10_Toggle ==
  /\ [](lastEvent.op = "mount" => ~isOpen)
  /\ [](mounted => ENABLED toggleChat)
  /\ [][ lastEvent'.op = "toggle" =>
           /\ isOpen' = ~isOpen
           /\ UNCHANGED <<messages, timers, inputValue, mounted, now,
                          initialMessages>> ]_vars

\* the chat was closed by a toggle with a history and a pending reply
C10_Witness ==
  /\ lastEvent.op = "toggle"
  /\ ~isOpen
  /\ messages # initialMessages
  /\ timers # <<>>

\* ======================================================================
\* The utility functions and the reply matcher as functions of their
\* argument: a caller holds an argument, calls, and keeps the result.
\* ======================================================================

\* no chat widget is mounted while the utilities are exercised
chatIdle ==
  /\ initialMessages = <<>>
  /\ isOpen = FALSE
  /\ messages = <<>>
  /\ inputValue = <<>>
  /\ timers = <<>>
  /\ now = 0
  /\ mounted = FALSE
  /\ answers = <<>>
  /\ lastEvent = Event("none", <<>>)

\* ---- the reply matcher ----
\* words per message
MaxWords == 2

\* words of the messages: keywords of several rules, in mixed case, a word
\* that holds an earlier rule's keyword ("hire" holds "hi"), and a word no
\* rule knows
Words ==
  { <<"H", "e", "l", "l", "o">>,
    <<"b", "y", "e">>,
    <<"T", "h", "a", "n", "k", "s">>,
    <<"h", "i", "r", "e">>,
    <<"p", "r", "i", "c", "e">>,
    <<"w", "h", "y", "?">>,
    <<"o", "k">> }

JoinWords(m, w) == IF m = <<>> THEN w ELSE m \o <<" ">> \o w

RECURSIVE MessagesOfWords(_)
MessagesOfWords(n) ==
  IF n = 0 THEN {<<>>}
  ELSE {JoinWords(m, w) : m \in MessagesOfWords(n - 1), w \in Words}

MatcherMessages == UNION {MessagesOfWords(n) : n \in 0..MaxWords}

MatchInit ==
  /\ chatIdle
  /\ formIdle
  /\ timeZone = 0
  /\ call = "none"
  /\ arg \in MatcherMessages
  /\ result = <<>>

callGetAutoReply ==
  /\ call' = "getAutoReply"
  /\ result' = getAutoReply(arg)
  /\ UNCHANGED <<arg, timeZone, chatVars, formVars>>

MatchNext == callGetAutoReply

MatchSpec == MatchInit /\ [][MatchNext]_vars

\* the rules with a keyword in the lowercased message
MatchingRules(message) ==
  {r \in 1..Len(Rules) :
     \E k \in 1..Len(Rules[r].keywords) :
       Includes(ToLowerCase(message), Rules[r].keywords[k])}

\* C11: the reply is the one of the earliest rule, in source order, that has
\* a keyword occurring in the lowercased message, even when later rules
\* match too; it is exactly that rule's reply.
C11_FirstMatchWins ==
  (call = "getAutoReply" /\ MatchingRules(arg) # {}) =>
     \E r \in MatchingRules(arg) :
       /\ \A q \in MatchingRules(arg) : r <= q
       /\ result = Rules[r].reply

\* a message matched by two rules with different replies got the reply of
\* the earlier one
C11_Witness ==
  /\ call = "getAutoReply"
  /\ \E r, q \in MatchingRules(arg) :
       /\ r < q
       /\ Rules[r].reply # Rules[q].reply
       /\ \A p \in MatchingRules(arg) : r <= p
       /\ result = Rules[r].reply

\* C12: getAutoReply returns a non-empty reply for every message, a repeated
\* call with the same message returns the same reply, and the reply is the
\* default one, which holds the profile email, exactly when no rule keyword
\* occurs in the lowercased message.
C12_TotalWithDefault ==
  /\ [](call = "getAutoReply" =>
          /\ result # <<>>
          /\ \A i \in 1..Len(result) : result[i] # ""
          /\ (result = DefaultReply) <=> (MatchingRules(arg) = {})
          /\ \E i \in 1..Len(DefaultReply) : DefaultReply[i] = ProfileEmail)
  /\ [][(call = "getAutoReply" /\ arg' = arg) => result' = result]_vars

\* a message without any keyword got the default reply
C12_Witness ==
  /\ call = "getAutoReply"
  /\ arg # <<>>
  /\ MatchingRules(arg) = {}
  /\ result = DefaultReply

\* ---- form validation (utils/validation) ----
\* required(value, fieldName)
requiredNoMessage(value, fieldName) ==
  LET trimmed == Trim(value) IN
    IF trimmed = <<>>
      THEN [isValid |-> FALSE, error |-> Null]
      ELSE [isValid |-> TRUE, error |-> Null]
required(value, fieldName) ==
  LET trimmed == Trim(value) IN
    IF trimmed = <<>>
      THEN [isValid |-> FALSE, error |-> Some(<<fieldName, " is required">>)]
      ELSE [isValid |-> TRUE, error |-> Null]

\* [^\s@]
NotSpaceNorAt(c) == ~IsWhiteSpace(c) /\ c # "@"

\* /^[^\s@]+@[^\s@]+\.[^\s@]+$/.test(s)
emailRegexTestLoose(s) ==
  \E i \in 1..Len(s) : \E p \in 1..Len(s) :
    /\ s[i] = "@"
    /\ s[p] = "."
    /\ 1 < i /\ i + 1 < p /\ p < Len(s)
    /\ \A j \in 1..Len(s) : ~IsWhiteSpace(s[j])
emailRegexTest(s) ==
  \E i \in 1..Len(s) : \E p \in 1..Len(s) :
    /\ s[i] = "@"
    /\ s[p] = "."
    /\ 1 < i /\ i + 1 < p /\ p < Len(s)
    /\ \A j \in (1..Len(s)) \ {i, p} : NotSpaceNorAt(s[j])

isValidEmail(value) ==
  LET trimmed == Trim(value) IN
    IF trimmed = <<>>
      THEN [isValid |-> FALSE, error |-> Some(<<"Email is required">>)]
    ELSE IF ~emailRegexTest(trimmed)
      THEN [isValid |-> FALSE, error |-> Some(<<"Please enter a valid email address">>)]
    ELSE [isValid |-> TRUE, error |-> Null]

\* minLength(value, min, fieldName)
minLengthRaw(value, min, fieldName) ==
  IF Len(value) < min
    THEN [isValid |-> FALSE,
          error |-> Some(<<fieldName, " must be at least ", ToString(min), " characters">>)]
    ELSE [isValid |-> TRUE, error |-> Null]
minLength(value, min, fieldName) ==
  LET trimmed == Trim(value) IN
    IF Len(trimmed) < min
      THEN [isValid |-> FALSE,
            error |-> Some(<<fieldName, " must be at least ", ToString(min), " characters">>)]
      ELSE [isValid |-> TRUE, error |-> Null]

\* maxLength(value, max, fieldName)
maxLengthInclusive(value, max, fieldName) ==
  LET trimmed == Trim(value) IN
    IF Len(trimmed) >= max
      THEN [isValid |-> FALSE,
            error |-> Some(<<fieldName, " must be no more than ", ToString(max), " characters">>)]
      ELSE [isValid |-> TRUE, error |-> Null]
maxLength(value, max, fieldName) ==
  LET trimmed == Trim(value) IN
    IF Len(trimmed) > max
      THEN [isValid |-> FALSE,
            error |-> Some(<<fieldName, " must be no more than ", ToString(max), " characters">>)]
      ELSE [isValid |-> TRUE, error |-> Null]

\* the limits validateName and validateMessage pass on
NameMin == 2
NameMax == 100
MessageMin == 10
MessageMax == 1000

validateName(value) ==
  LET requiredCheck == required(value, "Name")
      minCheck == minLength(value, NameMin, "Name")
      maxCheck == maxLength(value, NameMax, "Name")
  IN  IF ~requiredCheck.isValid THEN requiredCheck
      ELSE IF ~minCheck.isValid THEN minCheck
      ELSE IF ~maxCheck.isValid THEN maxCheck
      ELSE [isValid |-> TRUE, error |-> Null]

validateEmail(value) == isValidEmail(value)

validateMessage(value) ==
  LET requiredCheck == required(value, "Message")
      minCheck == minLength(value, MessageMin, "Message")
      maxCheck == maxLength(value, MessageMax, "Message")
  IN  IF ~requiredCheck.isValid THEN requiredCheck
      ELSE IF ~minCheck.isValid THEN minCheck
      ELSE IF ~maxCheck.isValid THEN maxCheck
      ELSE [isValid |-> TRUE, error |-> Null]

validateContactFormShortCircuit(data) ==
  LET nameResult == validateName(data.name)
      emailResult == IF nameResult.isValid THEN validateEmail(data.email)
                     ELSE [isValid |-> FALSE, error |-> Null]
      messageResult == IF emailResult.isValid THEN validateMessage(data.message)
                       ELSE [isValid |-> FALSE, error |-> Null]
  IN  [isValid |-> nameResult.isValid /\ emailResult.isValid /\ messageResult.isValid,
       errors |-> [name |-> nameResult.error,
                   email |-> emailResult.error,
                   message |-> messageResult.error]]
validateContactForm(data) ==
  LET nameResult == validateName(data.name)
      emailResult == validateEmail(data.email)
      messageResult == validateMessage(data.message)
  IN  [isValid |-> nameResult.isValid /\ emailResult.isValid /\ messageResult.isValid,
       errors |-> [name |-> nameResult.error,
                   email |-> emailResult.error,
                   message |-> messageResult.error]]

\* ---- inputs of the validators ----
\* blanks around a typed value
MaxPad == 1
\* longest typed email
MaxEmailLen == 5

Repeat(c, n) == [i \in 1..n |-> c]

\* n characters: letters, or two letters around blanks
Bodies(n) ==
  {Repeat("a", n)} \cup
  (IF n >= 3 THEN {<<"a">> \o Repeat(" ", n - 2) \o <<"a">>} ELSE {})

Padded(bodies) ==
  {Repeat(" ", l) \o b \o Repeat(" ", t) : l \in 0..MaxPad, t \in 0..MaxPad, b \in bodies}

\* values around the limits of a field
TextsAround(min, max) ==
  Padded(UNION {Bodies(n) : n \in {0, 1, min - 1, min, min + 1, max - 1, max, max + 1}})

NameTexts == TextsAround(NameMin, NameMax)
MessageTexts == TextsAround(MessageMin, MessageMax)

EmailAlphabet == {"a", "@", ".", " "}

RECURSIVE EmailsOfLen(_)
EmailsOfLen(n) ==
  IF n = 0 THEN {<<>>}
  ELSE {Append(e, c) : e \in EmailsOfLen(n - 1), c \in EmailAlphabet}

EmailTexts == UNION {EmailsOfLen(n) : n \in 0..MaxEmailLen}

GoodName == <<"A", "l">>
GoodEmail == <<"a", "@", "b", ".", "c", "o", "m">>
GoodMessage == <<"1", "2", "3", "4", "5", "6", "7", "8", "9", "0">>

\* forms: one field ranges over its values while the others are acceptable,
\* and every combination of an acceptable and two unacceptable values
Forms ==
  {[name |-> n, email |-> GoodEmail, message |-> GoodMessage] : n \in NameTexts}
  \cup {[name |-> GoodName, email |-> e, message |-> GoodMessage] : e \in EmailTexts}
  \cup {[name |-> GoodName, email |-> GoodEmail, message |-> m] : m \in MessageTexts}
  \cup [name : {GoodName, <<>>, <<"a">>},
        email : {GoodEmail, <<>>, <<"b", "a", "d">>},
        message : {GoodMessage, <<" ">>, <<"s", "h", "o", "r", "t">>}]

ValidationInit ==
  /\ chatIdle
  /\ formIdle
  /\ timeZone = 0
  /\ call = "none"
  /\ arg \in Forms
  /\ result = <<>>

Returned(fn, value) ==
  /\ call' = fn
  /\ result' = value
  /\ UNCHANGED <<arg, timeZone, chatVars, formVars>>

callRequired ==
  \/ Returned("required", required(arg.name, "Name"))
  \/ Returned("required", required(arg.message, "Message"))

callMinLength ==
  \/ Returned("minLength", minLength(arg.name, NameMin, "Name"))
  \/ Returned("minLength", minLength(arg.message, MessageMin, "Message"))

callMaxLength ==
  \/ Returned("maxLength", maxLength(arg.name, NameMax, "Name"))
  \/ Returned("maxLength", maxLength(arg.message, MessageMax, "Message"))

callIsValidEmail == Returned("isValidEmail", isValidEmail(arg.email))

callValidateName == Returned("validateName", validateName(arg.name))

callValidateEmail == Returned("validateEmail", validateEmail(arg.email))

callValidateMessage == Returned("validateMessage", validateMessage(arg.message))

callValidateContactForm == Returned("validateContactForm", validateContactForm(arg))

ValidationNext ==
  \/ callRequired
  \/ callMinLength
  \/ callMaxLength
  \/ callIsValidEmail
  \/ callValidateName
  \/ callValidateEmail
  \/ callValidateMessage
  \/ callValidateContactForm

ValidationSpec == ValidationInit /\ [][ValidationNext]_vars

\* ---- properties of the validators ----

\* C13: every result of required, minLength, maxLength, isValidEmail,
\* validateName, validateEmail and validateMessage is either valid with a
\* null error or invalid with an error message, never anything else.
C13_ResultShape ==
  (call \in {"required", "minLength", "maxLength", "isValidEmail",
             "validateName", "validateEmail", "validateMessage"}) =>
     /\ DOMAIN result = {"isValid", "error"}
     /\ result.isValid \in BOOLEAN
     /\ \/ result.isValid /\ result.error = Null
        \/ ~result.isValid /\ Len(result.error) = 1 /\ result.error[1] # <<>>

\* validateName handed back the result of its last check, failed
C13_Witness ==
  /\ call = "validateName"
  /\ ~result.isValid
  /\ result.error = Some(<<"Name", " must be no more than ", "100", " characters">>)

\* C14: validateContactForm reports for each field the error its own
\* validator returns for that field alone, and is valid exactly when the
\* three errors are null.
C14_FieldsIndependent ==
  (call = "validateContactForm") =>
     /\ result.errors.name = validateName(arg.name).error
     /\ result.errors.email = validateEmail(arg.email).error
     /\ result.errors.message = validateMessage(arg.message).error
     /\ result.isValid <=>
          (result.errors.name = Null /\ result.errors.email = Null
           /\ result.errors.message = Null)

\* a form with three unacceptable fields got three errors
C14_Witness ==
  /\ call = "validateContactForm"
  /\ ~result.isValid
  /\ result.errors.name # Null
  /\ result.errors.email # Null
  /\ result.errors.message # Null

\* C15: validateName accepts exactly the values whose trimmed length is in
\* 2..100, and reports the first failing check in the order required,
\* minimum, maximum.
C15_NameLimits ==
  (call = "validateName") =>
     LET n == Len(Trim(arg.name)) IN
       result =
         IF n = 0
           THEN [isValid |-> FALSE, error |-> Some(<<"Name", " is required">>)]
         ELSE IF n < 2
           THEN [isValid |-> FALSE,
                 error |-> Some(<<"Name", " must be at least ", "2", " characters">>)]
         ELSE IF n > 100
           THEN [isValid |-> FALSE,
                 error |-> Some(<<"Name", " must be no more than ", "100", " characters">>)]
         ELSE [isValid |-> TRUE, error |-> Null]

\* a padded value whose raw length reaches the minimum only through its
\* blanks was rejected by the minimum check
C15_Witness ==
  /\ call = "validateName"
  /\ Len(Trim(arg.name)) = 1
  /\ Len(arg.name) >= 2
  /\ result.error = Some(<<"Name", " must be at least ", "2", " characters">>)

\* C16: validateMessage accepts exactly the values whose trimmed length is
\* in 10..1000: 0 is "Message is required", 1..9 the minimum message, 1001
\* or more the maximum message.
C16_MessageLimits ==
  (call = "validateMessage") =>
     LET n == Len(Trim(arg.message)) IN
       result =
         IF n = 0
           THEN [isValid |-> FALSE, error |-> Some(<<"Message", " is required">>)]
         ELSE IF n < 10
           THEN [isValid |-> FALSE,
                 error |-> Some(<<"Message", " must be at least ", "10", " characters">>)]
         ELSE IF n > 1000
           THEN [isValid |-> FALSE,
                 error |-> Some(<<"Message", " must be no more than ", "1000", " characters">>)]
         ELSE [isValid |-> TRUE, error |-> Null]

\* a padded message of exactly 1000 characters after trimming was accepted
C16_Witness ==
  /\ call = "validateMessage"
  /\ Len(Trim(arg.message)) = 1000
  /\ Len(arg.message) > 1000
  /\ result.isValid

\* occurrences of a character
CountOf(s, c) == Cardinality({i \in 1..Len(s) : s[i] = c})

\* local@domain.tld: no blank, a single '@' after a non-empty local part,
\* and a '.' after it that is neither right behind the '@' nor the last
\* character
HasEmailShape(t) ==
  /\ CountOf(t, "@") = 1
  /\ \A i \in 1..Len(t) : ~IsWhiteSpace(t[i])
  /\ LET at == CHOOSE i \in 1..Len(t) : t[i] = "@" IN
       /\ at > 1
       /\ \E p \in (at + 2)..(Len(t) - 1) : t[p] = "."

\* C17: validateEmail accepts exactly the values whose trimmed form has the
\* shape local@domain.tld; an empty trimmed value is "Email is required" and
\* every other value "Please enter a valid email address".
C17_EmailShape ==
  (call = "validateEmail") =>
     LET t == Trim(arg.email) IN
       result =
         IF t = <<>>
           THEN [isValid |-> FALSE, error |-> Some(<<"Email is required">>)]
         ELSE IF HasEmailShape(t)
           THEN [isValid |-> TRUE, error |-> Null]
         ELSE [isValid |-> FALSE,
               error |-> Some(<<"Please enter a valid email address">>)]

\* a value with two '@' around an otherwise well-formed address was rejected
C17_Witness ==
  /\ call = "validateEmail"
  /\ CountOf(Trim(arg.email), "@") = 2
  /\ \E p \in 1..Len(arg.email) : arg.email[p] = "."
  /\ result.error = Some(<<"Please enter a valid email address">>)

\* ---- dates (utils/sorting.ts) ----
\* a date is the text "YYYY-MM-DD"; a time value is counted in minutes since
\* 1970-01-01T00:00Z (a day-precision date has no finer part)
MinutesPerDay == 1440

DigitChars == <<"0", "1", "2", "3", "4", "5", "6", "7", "8", "9">>

DigitValue(c) == (CHOOSE i \in 1..10 : DigitChars[i] = c) - 1

\* the decimal number written in s
RECURSIVE ParseInt(_)
ParseInt(s) ==
  IF s = <<>> THEN 0
  ELSE 10 * ParseInt(SubSeq(s, 1, Len(s) - 1)) + DigitValue(s[Len(s)])

\* number.toString()
RECURSIVE Digits(_)
Digits(n) ==
  IF n < 10 THEN <<DigitChars[n + 1]>>
  ELSE Digits(n \div 10) \o <<DigitChars[(n % 10) + 1]>>

\* toString().padStart(2, '0')
PadStart2(n) == IF n < 10 THEN <<"0">> \o Digits(n) ELSE Digits(n)

\* `${year}-${monthStr}-${dayStr}`
DateString(year, month, day) ==
  Digits(year) \o <<"-">> \o PadStart2(month) \o <<"-">> \o PadStart2(day)

\* days from 1970-01-01 to a date of the proleptic Gregorian calendar
DaysFromCivil(year, month, day) ==
  LET y == IF month <= 2 THEN year - 1 ELSE year
      era == y \div 400
      yoe == y - era * 400
      mp == IF month > 2 THEN month - 3 ELSE month + 9
      doy == (153 * mp + 2) \div 5 + day - 1
      doe == yoe * 365 + yoe \div 4 - yoe \div 100 + doy
  IN era * 146097 + doe - 719468

\* the calendar date of a day number
CivilFromDays(days) ==
  LET z == days + 719468
      era == z \div 146097
      doe == z - era * 146097
      yoe == (doe - doe \div 1460 + doe \div 36524 - doe \div 146096) \div 365
      doy == doe - (365 * yoe + yoe \div 4 - yoe \div 100)
      mp == (5 * doy + 2) \div 153
      month == IF mp < 10 THEN mp + 3 ELSE mp - 9
  IN [year |-> yoe + era * 400 + (IF month <= 2 THEN 1 ELSE 0),
      month |-> month,
      day |-> doy - (153 * mp + 2) \div 5 + 1]

\* new Date(dateString).getTime(): a date-only text is midnight UTC of its day
getTime(dateString) ==
  DaysFromCivil(ParseInt(SubSeq(dateString, 1, 4)),
                ParseInt(SubSeq(dateString, 6, 7)),
                ParseInt(SubSeq(dateString, 9, 10))) * MinutesPerDay

\* ---- sorting ----
\* Array.prototype.sort is stable: an element goes behind every element the
\* comparator does not order after it
ArraySort(array, compare) ==
  LET RECURSIVE InsertSorted(_, _)
      InsertSorted(sorted, x) ==
        IF sorted = <<>> THEN <<x>>
        ELSE IF compare[Head(sorted), x] <= 0
          THEN <<Head(sorted)>> \o InsertSorted(Tail(sorted), x)
          ELSE <<x>> \o sorted
      RECURSIVE SortPrefix(_)
      SortPrefix(n) ==
        IF n = 0 THEN <<>> ELSE InsertSorted(SortPrefix(n - 1), array[n])
  IN SortPrefix(Len(array))

\* the elements of an array
Elements(array) == {array[i] : i \in 1..Len(array)}

\* (a, b) => dateB - dateA
compareStartDateNullEndFirst(a, b) ==
  IF (a.endDate = Null) # (b.endDate = Null)
    THEN (IF a.endDate = Null THEN -1 ELSE 1)
    ELSE getTime(b.startDate) - getTime(a.startDate)
compareStartDateOpenEndedOnTie(a, b) ==
  IF getTime(b.startDate) = getTime(a.startDate)
       /\ (a.endDate = Null) # (b.endDate = Null)
    THEN (IF a.endDate = Null THEN -1 ELSE 1)
    ELSE getTime(b.startDate) - getTime(a.startDate)
compareStartDate(a, b) == getTime(b.startDate) - getTime(a.startDate)

\* (a, b) => b.year - a.year
compareYear(a, b) == b.year - a.year

\* a call leaves the caller's array as `array` and hands back `returned`
sortExperienceByDateInPlace(experiences) ==
  [array |-> ArraySort(experiences,
                         [a, b \in Elements(experiences) |-> compareStartDate(a, b)]),
   returned |-> ArraySort(experiences,
                         [a, b \in Elements(experiences) |-> compareStartDate(a, b)])]
sortExperienceByDate(experiences) ==
  [array |-> experiences,
   returned |-> ArraySort(experiences,
                         [a, b \in Elements(experiences) |-> compareStartDate(a, b)])]

sortExperienceByYear(entries) ==
  [array |-> entries,
   returned |-> ArraySort(entries,
                         [a, b \in Elements(entries) |-> compareYear(a, b)])]

\* ---- inputs of the sorts ----
\* entries per list
MaxEntries == 3

\* a date before, and two dates after, a change of year
StartDates ==
  {DateString(2020, 12, 31), DateString(2023, 1, 15), DateString(2024, 6, 1)}

\* an Experience: organization and description ride along with role
Experiences ==
  [role : {"a", "b"},
   startDate : StartDates,
   endDate : {Null, Some(DateString(2024, 6, 1))}]

\* an ExperienceEntry: title, description and isCurrent ride along with id
ExperienceEntries == [id : {"1", "2"}, year : {2022, 2023, 2024}]

ListsOf(S) == UNION {[1..n -> S] : n \in 0..MaxEntries}

SortingInit ==
  /\ chatIdle
  /\ formIdle
  /\ timeZone = 0
  /\ call = "none"
  /\ result = <<>>
  /\ \/ arg \in [type : {"Experience"}, list : ListsOf(Experiences)]
     \/ arg \in [type : {"ExperienceEntry"}, list : ListsOf(ExperienceEntries)]

\* the caller's array after the call, and the array handed back
Sorted(fn, outcome) ==
  /\ call' = fn
  /\ arg' = [arg EXCEPT !.list = outcome.array]
  /\ result' = outcome.returned
  /\ UNCHANGED <<timeZone, chatVars, formVars>>

callSortExperienceByDate ==
  /\ arg.type = "Experience"
  /\ Sorted("sortExperienceByDate", sortExperienceByDate(arg.list))

callSortExperienceByYear ==
  /\ arg.type = "ExperienceEntry"
  /\ Sorted("sortExperienceByYear", sortExperienceByYear(arg.list))

SortingNext ==
  \/ callSortExperienceByDate
  \/ callSortExperienceByYear

SortingSpec == SortingInit /\ [][SortingNext]_vars

\* ---- properties of the sorts ----

\* how often x occurs in list
Occurrences(list, x) == Cardinality({i \in 1..Len(list) : list[i] = x})

IsPermutationOf(a, b) ==
  /\ Len(a) = Len(b)
  /\ \A i \in 1..Len(b) : Occurrences(a, b[i]) = Occurrences(b, b[i])

\* the calendar order of dates, read off the text: year, then month, then day
DateKey(dateString) ==
  ParseInt(SubSeq(dateString, 1, 4)) * 10000
    + ParseInt(SubSeq(dateString, 6, 7)) * 100
    + ParseInt(SubSeq(dateString, 9, 10))

SortKey(fn, record) ==
  IF fn = "sortExperienceByDate" THEN DateKey(record.startDate) ELSE record.year

\* C18: a call of sortExperienceByDate or sortExperienceByYear hands back a
\* permutation of its input ordered non-increasing by the sort key (startDate,
\* year), and the input array is the same after the call as before it.
C18_SortedCopy ==
  [][(call' \in {"sortExperienceByDate", "sortExperienceByYear"}) =>
       /\ arg' = arg
       /\ IsPermutationOf(result', arg.list)
       /\ \A i \in 1..(Len(result') - 1) :
            SortKey(call', result'[i]) >= SortKey(call', result'[i + 1])]_vars

\* an input that was not in order came back reordered
C18_Witness ==
  /\ call = "sortExperienceByDate"
  /\ Len(arg.list) = MaxEntries
  /\ result # arg.list
  /\ DateKey(arg.list[1].startDate) < DateKey(arg.list[2].startDate)

\* the one arrangement of the positions 1..Len(keys) that is non-increasing
\* in the keys and keeps equal keys in their input order
StableDescending(keys) ==
  CHOOSE p \in [1..Len(keys) -> 1..Len(keys)] :
    /\ \A i, j \in 1..Len(keys) : i # j => p[i] # p[j]
    /\ \A i, j \in 1..Len(keys) :
         i < j => \/ keys[p[i]] > keys[p[j]]
                  \/ keys[p[i]] = keys[p[j]] /\ p[i] < p[j]

MonthShort ==
  << <<"J", "a", "n">>, <<"F", "e", "b">>, <<"M", "a", "r">>,
     <<"A", "p", "r">>, <<"M", "a", "y">>, <<"J", "u", "n">>,
     <<"J", "u", "l">>, <<"A", "u", "g">>, <<"S", "e", "p">>,
     <<"O", "c", "t">>, <<"N", "o", "v">>, <<"D", "e", "c">> >>

Present == <<"P", "r", "e", "s", "e", "n", "t">>

\* date.toLocaleDateString('en-US', {month: 'short', year: 'numeric'}): the
\* month and year of the instant on the calendar of the environment's zone
toLocaleDateString(time) ==
  LET local == CivilFromDays((time + timeZone) \div MinutesPerDay)
  IN MonthShort[local.month] \o <<" ">> \o Digits(local.year)

\* !dateString holds of null and of the empty string
formatDate(dateString) ==
  IF dateString = Null \/ dateString = Some(<<>>)
    THEN Present
    ELSE toLocaleDateString(getTime(dateString[1]))

\* `${formatDate(startDate)} - ${formatDate(endDate)}`
formatDurationTo(startDate, endDate) ==
  formatDate(Some(startDate)) \o <<" ", "t", "o", " ">> \o formatDate(endDate)
formatDuration(startDate, endDate) ==
  formatDate(Some(startDate)) \o <<" ", "-", " ">> \o formatDate(endDate)

\* ---- inputs of the formatters ----
\* years after the first
MaxYearSpan == 1

\* first and middle days of the first, a middle and the last month
FormatDates ==
  {DateString(year, month, day) :
     year \in 2023..(2023 + MaxYearSpan), month \in {1, 6, 12}, day \in {1, 15}}

\* offsets of the environment's zone: New York (EST), UTC, Kolkata
TimeZones == {-300, 0, 330}

FormatInit ==
  /\ chatIdle
  /\ formIdle
  /\ timeZone \in TimeZones
  /\ call = "none"
  /\ result = <<>>
  /\ arg \in [startDate : FormatDates,
              endDate : {Null} \cup {Some(d) : d \in FormatDates}]

callFormatDate ==
  \/ Returned("formatDate", formatDate(Some(arg.startDate)))
  \/ Returned("formatDate", formatDate(arg.endDate))

callFormatDuration ==
  Returned("formatDuration", formatDuration(arg.startDate, arg.endDate))

FormatNext ==
  \/ callFormatDate
  \/ callFormatDuration

FormatSpec == FormatInit /\ [][FormatNext]_vars

\* ---- properties of the formatters ----

\* how often k occurs in s as a substring
CountSubstring(s, k) ==
  Cardinality({i \in 0..(Len(s) - Len(k)) : \A j \in 1..Len(k) : s[i + j] = k[j]})

\* C20: formatDuration(start, end) is formatDate(start), then " - ", then
\* formatDate(end); " - " occurs in it exactly once, and "Present" occurs in
\* it exactly when end is null.
C20_Duration ==
  (call = "formatDuration") =>
     /\ result = formatDate(Some(arg.startDate)) \o <<" ", "-", " ">>
                   \o formatDate(arg.endDate)
     /\ CountSubstring(result, <<" ", "-", " ">>) = 1
     /\ Includes(result, Present) <=> (arg.endDate = Null)

\* an open-ended duration was formatted west of Greenwich
C20_Witness ==
  /\ call = "formatDuration"
  /\ arg.endDate = Null
  /\ timeZone < 0
  /\ CountSubstring(result, Present) = 1
  /\ CountSubstring(result, <<" ", "-", " ">>) = 1

\* the month and year written in the date text itself
OwnMonthYear(dateString) ==
  MonthShort[ParseInt(SubSeq(dateString, 6, 7))] \o <<" ">>
    \o SubSeq(dateString, 1, 4)

\* C21: formatDate of a date text is the short month and the year written in
\* the text, whatever the time zone of the environment; formatDuration of
\* "2023-01-15" and null is "Jan 2023 - Present".
C21_OwnMonthYear ==
  /\ (call = "formatDate" /\ arg.endDate = Some(arg.startDate)) =>
        result = OwnMonthYear(arg.startDate)
  /\ (call = "formatDuration" /\ arg.startDate = DateString(2023, 1, 15)
        /\ arg.endDate = Null) =>
        result = <<"J", "a", "n", " ", "2", "0", "2", "3", " ", "-", " ">>
                   \o Present

\* ---- the contact form (components/Contact/ContactForm.tsx) ----
\* The rules handed to register() are applied by react-hook-form to the raw
\* field value: required fails on the empty string alone, the length rules
\* count every character (an exceeded maxLength is reported before a missed
\* minLength), and the pattern is tested on the whole value.

\* register('name', {required, minLength, maxLength})
registerName(value) ==
  IF value = <<>> THEN Some(<<"Name is required">>)
  ELSE IF Len(value) > 100
    THEN Some(<<"Name must be no more than 100 characters">>)
  ELSE IF Len(value) < 2
    THEN Some(<<"Name must be at least 2 characters">>)
  ELSE Null

\* register('email', {required, pattern})
registerEmail(value) ==
  IF value = <<>> THEN Some(<<"Email is required">>)
  ELSE IF ~emailRegexTest(value)
    THEN Some(<<"Please enter a valid email address">>)
  ELSE Null

\* register('message', {required, minLength, maxLength})
registerMessage(value) ==
  IF value = <<>> THEN Some(<<"Message is required">>)
  ELSE IF Len(value) > 1000
    THEN Some(<<"Message must be no more than 1000 characters">>)
  ELSE IF Len(value) < 10
    THEN Some(<<"Message must be at least 10 characters">>)
  ELSE Null

FieldNames == {"name", "email", "message"}

\* the rule of one field applied to a value
fieldError(field, value) ==
  CASE field = "name" -> registerName(value)
    [] field = "email" -> registerEmail(value)
    [] field = "message" -> registerMessage(value)

\* the errors of all fields
fieldErrors(values) == [field \in FieldNames |-> fieldError(field, values[field])]

\* reset(): back to the default values, errors and submit flag cleared
reset(f) == UntouchedForm

\* the form element is rendered unless the success view replaced it
formRendered == formState.status # "success"

\* the submit button is enabled: disabled={formState.status === 'submitting'}
canSubmitWhileSubmitting == formRendered
canSubmit == formRendered /\ formState.status # "submitting"

\* how an awaited submission ends
Resolved == [ok |-> TRUE]
RejectedWith(isError, message) ==
  [ok |-> FALSE, isError |-> isError, message |-> message]

Outcomes ==
  {Resolved,
   RejectedWith(TRUE, "Network error"),
   RejectedWith(TRUE, ""),
   RejectedWith(FALSE, "timeout")}

\* what the try / catch of handleFormSubmit leaves behind once the await ends
handleFormSubmitSettledReset(outcome, f) ==
  IF outcome.ok
    THEN [formState |-> [status |-> "success", errorMessage |-> Null],
          form |-> reset(f)]
    ELSE [formState |->
            [status |-> "error",
             errorMessage |->
               IF outcome.isError
                 THEN Some(<<outcome.message>>)
                 ELSE Some(<<"Failed to send message. Please try again.">>)],
          form |-> reset(f)]
handleFormSubmitSettled(outcome, f) ==
  IF outcome.ok
    THEN [formState |-> [status |-> "success", errorMessage |-> Null],
          form |-> reset(f)]
    ELSE [formState |->
            [status |-> "error",
             errorMessage |->
               IF outcome.isError
                 THEN Some(<<outcome.message>>)
                 ELSE Some(<<"Failed to send message. Please try again.">>)],
          form |-> f]

\* ---- inputs of the contact form ----
\* what a field holds after an edit: nothing, blanks, a short and a passing
\* value, a value that passes only with its padding counted
FieldTexts ==
  [name |-> {<<>>, <<" ", " ">>, <<"a">>, <<"A", "l">>},
   email |-> {<<>>, <<"b", "a", "d">>, <<"a", "@", "b", ".", "c">>},
   message |-> {<<>>, <<"s", "h", "o", "r", "t">>,
                <<"1", "2", "3", "4", "5", "6", "7", "8", "9", "0">>,
                <<" ", "1", "2", "3", "4", "5", "6", "7", "8", "9">>}]

ContactFormInit ==
  /\ chatIdle
  /\ timeZone = 0
  /\ call = "none"
  /\ arg = <<>>
  /\ result = <<>>
  /\ formState = [status |-> "idle", errorMessage |-> Null]
  /\ form = UntouchedForm
  /\ inFlight = <<>>
  /\ onSubmit \in BOOLEAN

\* the handler that ran last is kept in call
Handled(handler) ==
  /\ call' = handler
  /\ UNCHANGED <<arg, result, timeZone, onSubmit, chatVars>>

\* onChange of a field; after a submit attempt the field is validated again
changeField(field, text) ==
  /\ formRendered
  /\ text # form.values[field]
  /\ form' = [form EXCEPT
                !.values[field] = text,
                !.errors[field] =
                   IF form.isSubmitted THEN fieldError(field, text) ELSE @]
  /\ UNCHANGED <<formState, inFlight>>
  /\ Handled("change")

\* onBlur of a field (mode: 'onBlur')
blurField(field) ==
  /\ formRendered
  /\ form' = [form EXCEPT !.errors[field] = fieldError(field, form.values[field])]
  /\ UNCHANGED <<formState, inFlight>>
  /\ Handled("blur")

\* handleSubmit(handleFormSubmit): every field is validated; with no error
\* handleFormSubmit runs up to its await
submitForm ==
  /\ canSubmit
  /\ LET errors == fieldErrors(form.values) IN
       /\ form' = [form EXCEPT !.errors = errors, !.isSubmitted = TRUE]
       /\ IF \A field \in FieldNames : errors[field] = Null
            THEN /\ formState' = [status |-> "submitting", errorMessage |-> Null]
                 /\ inFlight' = Append(inFlight, form.values)
            ELSE UNCHANGED <<formState, inFlight>>
  /\ Handled("submit")

\* the awaited call ends; only an onSubmit prop can reject
settleSubmit(outcome) ==
  /\ inFlight # <<>>
  /\ outcome.ok \/ onSubmit
  /\ LET after == handleFormSubmitSettled(outcome, form) IN
       /\ formState' = after.formState
       /\ form' = after.form
  /\ inFlight' = Tail(inFlight)
  /\ Handled(IF outcome.ok THEN "resolve" ELSE "reject")

\* 'Send Another Message'
sendAnotherMessage ==
  /\ formState.status = "success"
  /\ formState' = [status |-> "idle", errorMessage |-> Null]
  /\ UNCHANGED <<form, inFlight>>
  /\ Handled("sendAnother")

ContactFormNext ==
  \/ \E field \in FieldNames : \E text \in FieldTexts[field] : changeField(field, text)
  \/ \E field \in FieldNames : blurField(field)
  \/ submitForm
  \/ \E outcome \in Outcomes : settleSubmit(outcome)
  \/ sendAnotherMessage

ContactFormSpec == ContactFormInit /\ [][ContactFormNext]_vars

\* ---- properties of the contact form ----

\* C22: when the submit hook rejects, the status goes from submitting to
\* error with an error message, and name, email and message stay as entered;
\* apart from the visitor's own edits the fields change only when a
\* submission succeeds, which empties them and sets the status to success.
C22_ErrorKeepsFields ==
  [][/\ (call' = "reject") =>
          /\ formState.status = "submitting"
          /\ formState'.status = "error"
          /\ formState'.errorMessage # Null
          /\ form'.values = form.values
     /\ (form'.values # form.values /\ call' # "change") =>
          /\ call' = "resolve"
          /\ formState'.status = "success"
          /\ form'.values = UntouchedForm.values]_vars

\* a submission of a filled form was rejected
C22_Witness ==
  /\ call = "reject"
  /\ formState.status = "error"
  /\ formState.errorMessage # Null
  /\ \A field \in FieldNames : form.values[field] # <<>>

\* the text of an error: its pieces joined, null for null
RECURSIVE JoinPieces(_)
JoinPieces(pieces) ==
  IF pieces = <<>> THEN "" ELSE Head(pieces) \o JoinPieces(Tail(pieces))

ErrorText(error) == IF error = Null THEN Null ELSE Some(JoinPieces(error[1]))

\* C23: a submit lets the submission proceed exactly when validateContactForm
\* accepts the field values, and otherwise shows for each field the error
\* validateContactForm reports for it.
C23_SameAsValidateContactForm ==
  [][(call' = "submit") =>
       LET validation == validateContactForm(form.values) IN
         /\ (inFlight' # inFlight) <=> validation.isValid
         /\ ~validation.isValid =>
              \A field \in FieldNames :
                ErrorText(form'.errors[field]) = ErrorText(validation.errors[field])]_vars

\* ---- further properties of the chat widget ----

\* C24: owner replies are appended in the order in which their user messages
\* were sent, and the k-th owner reply of the session answers the k-th user
\* message.
C24_RepliesInSendOrder ==
  /\ \A i, j \in OwnerReplies : i < j => answers[i] < answers[j]
  /\ \A i \in OwnerReplies :
       Cardinality({j \in OwnerReplies : j <= i})
         = Cardinality({u \in UserMessages : u <= answers[i]})

\* two messages were sent before the first of them was answered, and both
\* replies have arrived
C24_Witness ==
  \E i, j \in OwnerReplies :
    /\ i < j
    /\ answers[j] < i
    /\ answers[i] < answers[j]

\* ---- the keywords as messages ----
\* every keyword of every rule
Keywords ==
  UNION {{Rules[r].keywords[k] : k \in 1..Len(Rules[r].keywords)} :
           r \in 1..Len(Rules)}

KeywordInit ==
  /\ chatIdle
  /\ formIdle
  /\ timeZone = 0
  /\ call = "none"
  /\ arg \in Keywords
  /\ result = <<>>

KeywordNext == callGetAutoReply

KeywordSpec == KeywordInit /\ [][KeywordNext]_vars

\* the rules that list the keyword
RulesListing(keyword) ==
  {r \in 1..Len(Rules) :
     \E k \in 1..Len(Rules[r].keywords) : Rules[r].keywords[k] = keyword}

\* C25: a message that is exactly a keyword of a rule gets that rule's reply.
C25_KeywordsEffective ==
  (call = "getAutoReply") =>
     \A r \in RulesListing(arg) : result = Rules[r].reply

\* ---- open-ended entries in the sort ----

ToUpperChar(c) ==
  IF \E u \in DOMAIN UpperToLower : UpperToLower[u] = c
    THEN CHOOSE u \in DOMAIN UpperToLower : UpperToLower[u] = c
    ELSE c

\* the spellings of a word: each letter in either case
CaseVariants(word) ==
  {s \in [1..Len(word) -> {word[i] : i \in 1..Len(word)}
                            \cup {ToUpperChar(word[i]) : i \in 1..Len(word)}] :
     \A i \in 1..Len(s) : s[i] \in {word[i], ToUpperChar(word[i])}}

\* letters per word
MaxWordLen == 4

\* a greeting, a farewell, two questions, a dead keyword and a word no rule
\* knows
CaseWords ==
  { <<"h", "i">>, <<"b", "y", "e">>, <<"w", "h", "y", "?">>,
    <<"h", "i", "r", "e">>, <<"o", "k">>, <<"c", "o", "s", "t">>,
    <<"s", "k", "i", "l", "l">>, <<"t", "h", "a", "n", "k", "s">> }

CaseMessages ==
  UNION {CaseVariants(word) : word \in {w \in CaseWords : Len(w) <= MaxWordLen}}

CaseInit ==
  /\ chatIdle
  /\ formIdle
  /\ timeZone = 0
  /\ call = "none"
  /\ arg \in CaseMessages
  /\ result = <<>>

CaseNext == callGetAutoReply

CaseSpec == CaseInit /\ [][CaseNext]_vars

\* C27: the reply to a message is the reply to every other spelling of it in
\* upper and lower case.
C27_CaseInsensitive ==
  (call = "getAutoReply") =>
     \A other \in CaseVariants(ToLowerCase(arg)) : getAutoReply(other) = result

\* a keyword typed in capitals throughout got its rule's reply
C27_Witness ==
  /\ call = "getAutoReply"
  /\ arg = <<"B", "Y", "E">>
  /\ result # DefaultReply
  /\ result = getAutoReply(<<"b", "y", "e">>)

\* ---- capped list sections (Projects, Certifications, Goals, Gallery) ----
MAX_PROJECTS == 6
MAX_CERTIFICATIONS == 5
MAX_GOALS == 3
MAX_IMAGES == 8

\* of the featured-projects test
MIN_PROJECTS == 3

\* Array.prototype.slice(0, end)
SliceInclusive(array, end) ==
  SubSeq(array, 1, IF Len(array) < end + 1 THEN Len(array) ELSE end + 1)
Slice(array, end) ==
  SubSeq(array, 1, IF Len(array) < end THEN Len(array) ELSE end)

\* Array.prototype.filter on the featured flag
FilterFeatured(projects, flag) ==
  SelectSeq(projects, LAMBDA project : project.featured = flag)

\* projects.slice(0, MAX_PROJECTS)
displayProjectsFeatured(projects) ==
  Slice(FilterFeatured(projects, TRUE), MAX_PROJECTS)
displayProjects(projects) == Slice(projects, MAX_PROJECTS)

displayCertifications(certifications) == Slice(certifications, MAX_CERTIFICATIONS)

displayGoals(goals) == Slice(goals, MAX_GOALS)

displayImages(images) == Slice(images, MAX_IMAGES)

\* the function of the featured-projects test, said there to mimic Projects.tsx
getDisplayProjects(projects) ==
  LET featuredProjects == Slice(FilterFeatured(projects, TRUE), MAX_PROJECTS)
      nonFeatured == Slice(FilterFeatured(projects, FALSE),
                           MIN_PROJECTS - Len(featuredProjects))
  IN IF Len(featuredProjects) >= MIN_PROJECTS
       THEN featuredProjects
       ELSE featuredProjects \o nonFeatured

\* ---- inputs of the sections ----
\* items per data file
MaxItems == 9

\* a featured and a plain project; two items of the other files
ProjectItems == {[title |-> "p", featured |-> TRUE], [title |-> "q", featured |-> FALSE]}
PlainItems == {"a", "b"}

ArraysOf(S) == UNION {[1..n -> S] : n \in 0..MaxItems}

SectionInit ==
  /\ chatIdle
  /\ formIdle
  /\ timeZone = 0
  /\ call = "none"
  /\ result = <<>>
  /\ \/ arg \in [section : {"Projects"}, items : ArraysOf(ProjectItems)]
     \/ arg \in [section : {"Certifications", "Goals", "Gallery"},
                 items : ArraysOf(PlainItems)]

\* the module of a section is loaded and its list computed
renderProjects ==
  /\ arg.section = "Projects"
  /\ Returned("displayProjects", displayProjects(arg.items))

renderCertifications ==
  /\ arg.section = "Certifications"
  /\ Returned("displayCertifications", displayCertifications(arg.items))

renderGoals ==
  /\ arg.section = "Goals"
  /\ Returned("displayGoals", displayGoals(arg.items))

renderGallery ==
  /\ arg.section = "Gallery"
  /\ Returned("displayImages", displayImages(arg.items))

SectionNext ==
  \/ renderProjects
  \/ renderCertifications
  \/ renderGoals
  \/ renderGallery

SectionSpec == SectionInit /\ [][SectionNext]_vars

\* ---- properties of the sections ----

StatusChanges ==
  {<<"idle", "submitting">>, <<"error", "submitting">>,
   <<"submitting", "success">>, <<"submitting", "error">>,
   <<"success", "idle">>}

\* C29: the status of the contact form changes only from idle or error to
\* submitting, from submitting to success or error, and from success to
\* idle; there is an error message exactly while the status is error; and no
\* submission starts while one is awaited, so at most one is in flight.
C29_StatusCycle ==
  /\ []((formState.errorMessage # Null) <=> (formState.status = "error"))
  /\ [](Len(inFlight) <= 1)
  /\ []((inFlight # <<>>) <=> (formState.status = "submitting"))
  /\ [][/\ formState'.status # formState.status =>
             <<formState.status, formState'.status>> \in StatusChanges
        /\ formState.status = "submitting" => Len(inFlight') <= Len(inFlight)]_vars

\* after a success the visitor asked for another message
C29_Witness ==
  /\ call = "sendAnother"
  /\ formState.status = "idle"
  /\ inFlight = <<>>

\* ---- the caps ----

\* the cap the claim names for each section
ClaimedMax ==
  [displayProjects |-> 6, displayCertifications |-> 5,
   displayGoals |-> 3, displayImages |-> 8]

====
